---- MODULE Spec2Model ----
(***************************************************************************)
(* phrase-to-clip: the client playback/subtitle engine (src/app/page.tsx,  *)
(* VideoPlayer, latest revision at lines 252-528) and the result           *)
(* normalizer (src/app/api/videos/route.ts, GET).                          *)
(*                                                                         *)
(* Spec       the VideoPlayer component: its React state, the listeners    *)
(*            its effects attach to the <video> element, the fetches in    *)
(*            flight.  One action is one handler together with the render  *)
(*            and the effects React runs for the state it has set.         *)
(* SpecTick   updateSubtitle alone: a one-clip queue whose subtitle carries *)
(*            any bounded word list, and the clock ticks.                  *)
(* SpecServer one GET request of the normalizer: the session, the search   *)
(*            call, the concurrent detail lookups, the aggregation.        *)
(* SpecServerLive  SpecServer where every awaited call settles.             *)
(* SpecPage   one page load end to end: the component mounts, GET serves   *)
(*            the request for the same phrase, the component handles the   *)
(*            response.                                                    *)
(* SpecCap    one GET request whose search answers with an array of up to  *)
(*            MaxUpstream results, every lookup of which resolves.         *)
(* SpecDetail one GET request with one result, whose detail body is any    *)
(*            object over the six URL fields.                              *)
(* SpecIds    one GET request whose results carry any combination of the   *)
(*            four identifier fields, every lookup of which resolves.      *)
(***************************************************************************)
EXTENDS Integers, Sequences, FiniteSets, TLC

\* ---------------------------------------------------------------- bounds
MaxLen == 2         \* longest videos list a response carries
MaxInflight == 1    \* fetches in flight for one query at a time
MaxTime == 2        \* largest clock time (ms) a timeupdate reports
MaxWords == 2       \* longest word list of a subtitle (SpecTick)
MaxResults == 2     \* longest result sequence of a search response
MaxFieldLen == 1    \* longest array under a property of an object body
MaxUpstream == 6    \* most results the upstream answers with (SpecCap)
MaxIds == 2         \* longest result array of SpecIds

\* ------------------------------------------------------------- constants
NoPhrase == "nophrase"      \* searchParams.get('phrase') is null or ''
Phrases == {"a", "b"}
Queries == Phrases \cup {NoPhrase}

NoError == "null"
ErrMissing == "Please provide a phrase parameter in the URL"
ErrNoVideos == "No videos found for this phrase"
ErrFailed == "Failed to fetch videos"
ErrThrown == "err.message"
FailMessages == {ErrFailed, ErrThrown}

NoSub == [absent |-> TRUE]
NoSrc == <<>>
UndefinedSrc == <<"undefined">>
NoPre == [shrunk |-> FALSE, listeners |-> FALSE]
Absent == -1                \* a word's start or end is undefined

VARIABLES
    query,              \* the (phrase, language) pair of the URL
    inflight,           \* fetches issued and not yet settled, per query
    videos,             \* useState<string[]>([])
    subtitles,          \* useState<Subtitle[]>([])
    loading,            \* useState(true)
    error,              \* useState<string | null>(null)
    currentIndex,       \* useState(0)
    currentSubtitle,    \* useState<string>('')
    currentWordIndex,   \* useState<number>(-1)
    endedListeners,     \* 'ended'/'error' listeners attached to a <video>
    timeListeners,      \* 'timeupdate' listeners attached to a <video>
    videoEl,            \* the mounted <video>: none, playing, blocked, idle
    videoSrc,           \* video.src of the mounted <video>
    lastOp,             \* history: the handler that ran last
    sinceZero,          \* history: advances since currentIndex was last 0
    errorOf,            \* history: the query whose fetch effect wrote error last
    pre,                \* history: what the queue load just done replaced
    tickTime            \* history: the clock time of the timeupdate just handled

\* The normalizer, one request (route.ts GET).
VARIABLES
    sPc,                \* start, probe, session, searched, lookups, done
    sPhrase,            \* searchParams.get('phrase'), "" when absent
    env,                \* PLAYPHRASE_COOKIES and PLAYPHRASE_CSRF_TOKEN, "" when unset
    session,            \* const { cookies, csrfToken } of GET
    upstream,           \* history: the calls issued to the upstream, by endpoint
    searchHeaders,      \* history: Cookie and X-Csrf-Token of the search call
    searchOutcome,      \* history: how the search call ended
    searchData,         \* the body searchPhrases parsed (gone once GET goes on)
    results,            \* const results: PhraseResult[]
    videoUrls,          \* what each of videoPromises settled with
    settleOrder,        \* history: the lookups in the order they settled
    detail,             \* history: what the upstream answered each lookup
    lookupIds,          \* history: the videoId each lookup was issued with
    detailData,         \* history: the detail body parsed last (SpecDetail)
    response            \* the NextResponse returned

clientVars == <<query, inflight, videos, subtitles, loading, error,
                currentIndex, currentSubtitle, currentWordIndex,
                endedListeners, timeListeners, videoEl, videoSrc,
                lastOp, sinceZero, errorOf, pre, tickTime>>

serverVars == <<sPc, sPhrase, env, session, upstream, searchHeaders,
                searchOutcome, searchData, results, videoUrls, settleOrder,
                detail, lookupIds, detailData, response>>

vars == <<clientVars, serverVars>>

\* ------------------------------------------------------------ data model
\* A clip URL of the response to query q, and a caption text: tuples, so
\* that two clips of one queue and two queues are told apart.
Url(q, i) == <<q, i>>
Text(q, i) == <<q, i, "text">>

Word(s, e) == [start |-> s, end |-> e]

\* Word timings of the i-th clip: odd clips carry two words whose windows
\* overlap at 1 and leave 0 uncovered, even clips carry no words.
WordsFor(i) ==
    IF i % 2 = 1 THEN <<Word(1, 1), Word(1, 2)>> ELSE <<>>

Sub(q, i) == [text |-> Text(q, i), words |-> WordsFor(i)]

VideosOf(q, n) == [i \in 1..n |-> Url(q, i)]

\* data.subtitles || [] : absent, or index-aligned with videos.
SubtitleChoices(q, n) ==
    { <<>>, [i \in 1..n |-> Sub(q, i)] }

\* subtitles[currentIndex], undefined and null both read as NoSub
SubAt(subs, idx) ==
    IF idx >= 0 /\ idx < Len(subs) THEN subs[idx + 1] ELSE NoSub

\* videos[currentIndex]
VideoAt(v, idx) ==
    IF idx >= 0 /\ idx < Len(v) THEN v[idx + 1] ELSE UndefinedSrc

\* ---------------------------------------------------------------- render
\* The branch the component returns (page.tsx 452-515).
View(ld, err, v) ==
    IF ld THEN "loading"
    ELSE IF err # NoError THEN "error"
    ELSE IF Len(v) = 0 THEN "empty"
    ELSE "player"

CurrentView == View(loading, error, videos)

CaptionShown_TextOnly ==
    /\ CurrentView = "player"
    /\ currentSubtitle # <<>>

\* The caption overlay is rendered (page.tsx 493).
CaptionShown ==
    /\ CurrentView = "player"
    /\ currentSubtitle # <<>>
    /\ SubAt(subtitles, currentIndex) # NoSub

\* ------------------------------------------------------ subtitle lookup
\* word.start ?? 0, word.end ?? 0 (page.tsx 390-391)
OrZero(x) == IF x = Absent THEN 0 ELSE x

\* The loop of updateSubtitle (page.tsx 388-398): it stops at the first
\* word whose window holds the time.
RECURSIVE ScanWords(_, _, _)
ScanWords(words, t, i) ==
    IF i > Len(words) THEN -1
    ELSE IF t >= OrZero(words[i].start) /\ t <= OrZero(words[i].end)
         THEN i - 1
    ELSE ScanWords(words, t, i + 1)

\* The loop without its break: the last matching word is kept.
RECURSIVE ScanWordsLast(_, _, _, _)
ScanWordsLast(words, t, i, found) ==
    IF i > Len(words) THEN found
    ELSE IF t >= OrZero(words[i].start) /\ t <= OrZero(words[i].end)
         THEN ScanWordsLast(words, t, i + 1, i - 1)
    ELSE ScanWordsLast(words, t, i + 1, found)

updateSubtitle_NoBreak(words, t) ==
    IF Len(words) > 0 THEN ScanWordsLast(words, t, 1, -1) ELSE -1

\* The word index updateSubtitle sets (page.tsx 384-404).
updateSubtitle(words, t) ==
    IF Len(words) > 0 THEN ScanWords(words, t, 1) ELSE -1

\* -------------------------------------------------------------- handlers
handleEnded_Skip(prev, len) == (prev + 2) % len

\* handleEnded (page.tsx 327-333)
handleEnded(prev, len) == (prev + 1) % len

handleError_Stay(prev, len) == prev

\* handleError (page.tsx 335-341)
handleError(prev, len) == (prev + 1) % len

\* The cleanup of the ended/error effect (page.tsx 346-349) and of the
\* timeupdate effect (page.tsx 415-417): the listeners the last run added.
CleanupEnded_Leak(ls) == ls

CleanupEnded(ls) == {}

\* The cleanup of the timeupdate effect (page.tsx 415-417).
CleanupTime_Leak(ls) == ls

CleanupTime(ls) == {}

Detach(ls) == { [l EXCEPT !.el = "detached"] : l \in ls }

MarkStale(ls) == { [l EXCEPT !.stale = TRUE] : l \in ls }

\* The render and the effects that follow the state v, subs, idx, ld, err
\* having been set.  dV, dI, dS: videos, currentIndex, subtitles changed
\* (a dependency of an effect).  el0: the mounted element's state as the
\* handler left it.  played: video.play() was not rejected.
Effects(v, subs, idx, ld, err, dV, dI, dS, el0, played) ==
    LET was == CurrentView = "player"
        now == View(ld, err, v) = "player"
        e0 == IF was /\ ~now THEN Detach(endedListeners) ELSE endedListeners
        e1 == IF dV THEN MarkStale(e0) ELSE e0
        t0 == IF was /\ ~now THEN Detach(timeListeners) ELSE timeListeners
        t1 == IF dV THEN MarkStale(t0) ELSE t0
        sub == SubAt(subs, idx)
        runPlay == (dV \/ dI \/ dS) /\ now /\ Len(v) # 0
        runSub == (dI \/ dS)
        capt0 == IF runPlay /\ sub # NoSub THEN sub.text ELSE currentSubtitle
    IN
    /\ endedListeners' =
          IF dV \/ dI
          THEN CleanupEnded(e1) \cup
                 (IF now /\ Len(v) # 0
                  THEN {[len |-> Len(v), el |-> "mounted", stale |-> FALSE]}
                  ELSE {})
          ELSE e1
    /\ timeListeners' =
          IF runSub
          THEN CleanupTime(t1) \cup
                 (IF now /\ sub # NoSub
                  THEN {[sub |-> sub, el |-> "mounted", stale |-> FALSE]}
                  ELSE {})
          ELSE t1
    /\ videoEl' =
          IF ~now THEN "none"
          ELSE IF runPlay THEN (IF played THEN "playing" ELSE "blocked")
          ELSE IF was THEN el0
          ELSE "idle"
    /\ videoSrc' =
          IF ~now THEN NoSrc
          ELSE IF runPlay THEN VideoAt(v, idx)
          ELSE IF was THEN videoSrc
          ELSE NoSrc
    /\ currentSubtitle' =
          IF runSub /\ now /\ sub # NoSub THEN sub.text ELSE capt0
    /\ currentWordIndex' =
          IF runSub /\ now /\ sub # NoSub THEN -1 ELSE currentWordIndex

\* ------------------------------------------------------------ fetch effect
\* The body of fetchVideos up to its await (page.tsx 286-296).
StartFetch(q) ==
    IF q = NoPhrase
    THEN /\ error' = ErrMissing
         /\ loading' = FALSE
         /\ errorOf' = q
         /\ inflight' = inflight
    ELSE /\ loading' = TRUE
         /\ error' = NoError
         /\ errorOf' = q
         /\ inflight' = [inflight EXCEPT ![q] = @ + 1]

LoadedIndex_Keep(prev) == prev

\* setCurrentIndex(0) when new videos are loaded (page.tsx 308-309)
LoadedIndex(prev) == 0

ClientInit ==
    /\ query \in Queries
    /\ inflight = [q \in Phrases |-> IF q = query THEN 1 ELSE 0]
    /\ videos = <<>>
    /\ subtitles = <<>>
    /\ loading = (query # NoPhrase)
    /\ error = IF query = NoPhrase THEN ErrMissing ELSE NoError
    /\ currentIndex = 0
    /\ currentSubtitle = <<>>
    /\ currentWordIndex = -1
    /\ endedListeners = {}
    /\ timeListeners = {}
    /\ videoEl = "none"
    /\ videoSrc = NoSrc
    /\ lastOp = "mount"
    /\ sinceZero = 0
    /\ errorOf = query
    /\ pre = NoPre
    /\ tickTime = 0

\* The component as its first render leaves it, no effect run yet
\* (page.tsx 275-283).
Constructed ==
    /\ query \in Queries
    /\ inflight = [q \in Phrases |-> 0]
    /\ videos = <<>>
    /\ subtitles = <<>>
    /\ loading = TRUE
    /\ error = NoError
    /\ currentIndex = 0
    /\ currentSubtitle = <<>>
    /\ currentWordIndex = -1
    /\ endedListeners = {}
    /\ timeListeners = {}
    /\ videoEl = "none"
    /\ videoSrc = NoSrc
    /\ lastOp = "render"
    /\ sinceZero = 0
    /\ errorOf = query
    /\ pre = NoPre
    /\ tickTime = 0

\* The first run of the fetch effect (page.tsx 285-321); ClientInit is the
\* state it leaves.
Mount ==
    /\ lastOp = "render"
    /\ StartFetch(query)
    /\ UNCHANGED <<query, videos, subtitles, currentIndex, sinceZero>>
    /\ pre' = NoPre
    /\ tickTime' = 0
    /\ Effects(videos, subtitles, currentIndex, loading', error',
               FALSE, FALSE, FALSE, videoEl, TRUE)
    /\ lastOp' = "mount"
    /\ UNCHANGED serverVars

\* The URL's phrase or language changes: the fetch effect runs again
\* (page.tsx 285-321, dependencies [phrase, language]).
ChangeQuery(q) ==
    /\ q # query
    /\ q # NoPhrase => inflight[q] < MaxInflight
    /\ query' = q
    /\ StartFetch(q)
    /\ UNCHANGED <<videos, subtitles, currentIndex, sinceZero>>
    /\ pre' = NoPre
    /\ tickTime' = 0
    /\ Effects(videos, subtitles, currentIndex, loading', error',
               FALSE, FALSE, FALSE, videoEl, TRUE)
    /\ lastOp' = "query"
    /\ UNCHANGED serverVars

\* A fetch settles with a non-empty videos list (page.tsx 303-309, 315-317).
FetchVideos(q, n, subs, played) ==
    /\ inflight[q] > 0
    /\ inflight' = [inflight EXCEPT ![q] = @ - 1]
    /\ videos' = VideosOf(q, n)
    /\ subtitles' = subs
    /\ currentIndex' = LoadedIndex(currentIndex)
    /\ loading' = FALSE
    /\ UNCHANGED <<query, error, errorOf>>
    /\ sinceZero' = 0
    /\ pre' = [shrunk |-> currentIndex >= n,
               listeners |-> endedListeners # {} \/ timeListeners # {}]
    /\ tickTime' = 0
    /\ Effects(videos', subtitles', currentIndex', FALSE, error,
               TRUE, currentIndex' # currentIndex, TRUE, videoEl, played)
    /\ lastOp' = "loadQueue"
    /\ UNCHANGED serverVars

FetchEmpty_NoError(q) ==
    /\ inflight[q] > 0
    /\ inflight' = [inflight EXCEPT ![q] = @ - 1]
    /\ loading' = FALSE
    /\ UNCHANGED <<query, videos, subtitles, currentIndex, sinceZero,
                   error, errorOf>>
    /\ pre' = NoPre
    /\ tickTime' = 0
    /\ Effects(videos, subtitles, currentIndex, FALSE, error,
               FALSE, FALSE, FALSE, videoEl, TRUE)
    /\ lastOp' = "loadEmpty"
    /\ UNCHANGED serverVars

\* A fetch settles with no videos: null, no videos field, or an empty list
\* (page.tsx 304, 310-312, 315-317).
FetchEmpty(q) ==
    /\ inflight[q] > 0
    /\ inflight' = [inflight EXCEPT ![q] = @ - 1]
    /\ error' = ErrNoVideos
    /\ errorOf' = q
    /\ loading' = FALSE
    /\ UNCHANGED <<query, videos, subtitles, currentIndex, sinceZero>>
    /\ pre' = NoPre
    /\ tickTime' = 0
    /\ Effects(videos, subtitles, currentIndex, FALSE, error',
               FALSE, FALSE, FALSE, videoEl, TRUE)
    /\ lastOp' = "loadEmpty"
    /\ UNCHANGED serverVars

\* A fetch fails: a non-2xx response or a thrown error
\* (page.tsx 298-301, 313-317).
FetchFail(q, msg) ==
    /\ inflight[q] > 0
    /\ inflight' = [inflight EXCEPT ![q] = @ - 1]
    /\ error' = msg
    /\ errorOf' = q
    /\ loading' = FALSE
    /\ UNCHANGED <<query, videos, subtitles, currentIndex, sinceZero>>
    /\ pre' = NoPre
    /\ tickTime' = 0
    /\ Effects(videos, subtitles, currentIndex, FALSE, error',
               FALSE, FALSE, FALSE, videoEl, TRUE)
    /\ lastOp' = "loadFail"
    /\ UNCHANGED serverVars

\* The element a listener is attached to can deliver the event.
CanEnd(l) == l.el = "detached" \/ videoEl = "playing"

CanFail(l) == l.el = "detached" \/ videoEl \in {"playing", "blocked"}

CanTick(l) == l.el = "detached" \/ videoEl = "playing"

\* setCurrentIndex(next) from a listener, the render and the effects
\* (page.tsx 328-332, 337-340, then 323-418).
ClipFinished(l, next, played) ==
    /\ currentIndex' = next
    /\ UNCHANGED <<query, inflight, videos, subtitles, loading, error,
                   errorOf>>
    /\ pre' = NoPre
    /\ tickTime' = 0
    /\ sinceZero' = IF next = 0 THEN 0 ELSE sinceZero + 1
    /\ Effects(videos, subtitles, next, loading, error,
               FALSE, next # currentIndex, FALSE,
               IF l.el = "mounted" THEN "idle" ELSE videoEl, played)

Ended(l, played) ==
    /\ CanEnd(l)
    /\ ClipFinished(l, handleEnded(currentIndex, l.len), played)
    /\ lastOp' = "ended"
    /\ UNCHANGED serverVars

Error(l, played) ==
    /\ CanFail(l)
    /\ ClipFinished(l, handleError(currentIndex, l.len), played)
    /\ lastOp' = "error"
    /\ UNCHANGED serverVars

\* 'timeupdate' at clock time t (page.tsx 374-405).
Tick(l, t) ==
    /\ CanTick(l)
    /\ currentSubtitle' = l.sub.text
    /\ currentWordIndex' = updateSubtitle(l.sub.words, t)
    /\ UNCHANGED <<query, inflight, videos, subtitles, loading, error,
                   currentIndex, endedListeners, timeListeners, videoEl,
                   videoSrc, sinceZero, errorOf>>
    /\ pre' = NoPre
    /\ tickTime' = t
    /\ lastOp' = "tick"
    /\ UNCHANGED serverVars

ClientNext ==
    \/ \E q \in Queries : ChangeQuery(q)
    \/ \E q \in Phrases, n \in 1..MaxLen, played \in BOOLEAN :
          \E subs \in SubtitleChoices(q, n) : FetchVideos(q, n, subs, played)
    \/ \E q \in Phrases : FetchEmpty(q)
    \/ \E q \in Phrases, msg \in FailMessages : FetchFail(q, msg)
    \/ \E l \in endedListeners, played \in BOOLEAN : Ended(l, played)
    \/ \E l \in endedListeners, played \in BOOLEAN : Error(l, played)
    \/ \E l \in timeListeners, t \in 0..MaxTime : Tick(l, t)

\* ------------------------------------------------------------- normalizer
\* Values a promise of videoPromises holds.
Pending == <<"pending">>
Rejected == <<"rejected">>
Null == <<"null">>
EmptyString == <<>>
DetailUrl(i) == <<"url", i>>

\* The limit GET passes to searchPhrases (route.ts 305).
Limit == 5

ErrParam == "Missing required parameter: phrase"

\* NextResponse.json({ error }, { status }) (route.ts 295-298)
JsonError(st, err) ==
    [status |-> st, body |-> "error", videos |-> <<>>, error |-> err,
     message |-> ""]

\* The 500 of the catch: the fixed error and error.message in the message
\* field (route.ts 338-344).
JsonFailure(msg) ==
    [status |-> 500, body |-> "error", videos |-> <<>>, error |-> ErrFailed,
     message |-> msg]

\* NextResponse.json({ videos }) (route.ts 308, 337)
JsonVideos(v) ==
    [status |-> 200, body |-> "videos", videos |-> v, error |-> "",
     message |-> ""]

NoResponse ==
    [status |-> 0, body |-> "none", videos |-> <<>>, error |-> "",
     message |-> ""]

\* error.message of a failed search: the upstream's status, status text and
\* the first 200 characters of its body, or what fetch threw
\* (route.ts 170-174).
Diagnostics ==
    {"Search API failed: 403 Forbidden. Response: <html>challenge</html>",
     "Search API failed: 500 Internal Server Error. Response: stack trace"}
NoData == [kind |-> "none"]

\* process.env as getAuthFromEnv reads it (route.ts 22-33): each variable
\* set, or "" for unset or empty.
EnvUnset == [cookies |-> "", csrfToken |-> ""]
EnvBoth == [cookies |-> "env", csrfToken |-> "env"]
EnvConfigs == [cookies : {"", "env"}, csrfToken : {"", "env"}]

EnvComplete_Either(e) == e.cookies # "" \/ e.csrfToken # ""

\* envAuth.cookies && envAuth.csrfToken (route.ts 38)
EnvComplete(e) == e.cookies # "" /\ e.csrfToken # ""

\* No session: getSessionCookies has not returned.
NoSession == [cookies |-> "none", csrfToken |-> "none"]

EmptySession_Unreturned == NoSession

\* The session of a failed acquisition (route.ts 55-57, 128-130).
EmptySession == [cookies |-> "", csrfToken |-> ""]

\* What the landing page can give: cookies or none, a token or none.
LandingCookies == {"", "set-cookie"}
LandingTokens == {"", "html"}

NoCalls == [landing |-> 0, search |-> 0, detail |-> 0]
NoHeaders == [sent |-> FALSE, cookie |-> "", token |-> ""]

\* The Cookie and X-Csrf-Token headers of the search call, "" for a header
\* that is not set (route.ts 153-158).
SearchHeaders(s) ==
    [sent |-> TRUE, cookie |-> s.cookies, token |-> s.csrfToken]

PhraseMissing_Never(p) == FALSE

\* !phrase (route.ts 294)
PhraseMissing(p) == p = ""

\* A PhraseResult: its four identifier fields, "" for undefined or ''.
ResultKinds ==
    { [video_id |-> "v", videoId |-> "", _id |-> "", id |-> "w"],
      [video_id |-> "", videoId |-> "", _id |-> "x", id |-> ""],
      [video_id |-> "", videoId |-> "", _id |-> "", id |-> ""] }

RECURSIVE SeqsUpTo(_, _)
SeqsUpTo(S, n) ==
    IF n = 0 THEN {<<>>}
    ELSE LET shorter == SeqsUpTo(S, n - 1)
         IN shorter \cup { Append(q, x) : q \in shorter, x \in S }

ResultSeqs == SeqsUpTo(ResultKinds, MaxResults)

\* A property of the parsed body: not there, there and no array, an array.
FieldAbsent == [t |-> "absent", arr |-> <<>>]
FieldOther == [t |-> "other", arr |-> <<>>]
FieldArray(S) == [t |-> "array", arr |-> S]
FieldValues ==
    {FieldAbsent, FieldOther}
    \cup { FieldArray(S) : S \in SeqsUpTo(ResultKinds, MaxFieldLen) }

\* What JSON.parse of the search body gives: an array, an object, another
\* value (null, a number, a string), or nothing (it throws).
SearchBodies ==
    { [kind |-> "array", arr |-> S, results |-> FieldAbsent,
       data |-> FieldAbsent, items |-> FieldAbsent] : S \in ResultSeqs }
    \cup
    { [kind |-> "object", arr |-> <<>>, results |-> r, data |-> d,
       items |-> i] : r \in FieldValues, d \in FieldValues, i \in FieldValues }
    \cup
    { [kind |-> k, arr |-> <<>>, results |-> FieldAbsent,
       data |-> FieldAbsent, items |-> FieldAbsent] :
         k \in {"primitive", "unparsable"} }

\* The earlier revision (part_000 176-183): only results is looked at.
searchPhrases_ResultsOnly(body) ==
    IF body.kind = "array" THEN body.arr
    ELSE IF body.kind = "object" /\ body.results.t = "array"
         THEN body.results.arr
    ELSE <<>>

\* searchPhrases from the parsed body on (route.ts 179-220).
searchPhrases(body) ==
    IF body.kind = "unparsable" THEN <<>>
    ELSE IF body.kind = "array" THEN body.arr
    ELSE IF body.kind = "object"
         THEN IF body.results.t = "array" THEN body.results.arr
              ELSE IF body.data.t = "array" THEN body.data.arr
              ELSE IF body.items.t = "array" THEN body.items.arr
              ELSE <<>>
    ELSE <<>>

ExtractId_IdFirst(r) ==
    IF r.id # "" THEN r.id
    ELSE IF r._id # "" THEN r._id
    ELSE IF r.videoId # "" THEN r.videoId
    ELSE r.video_id

\* result.video_id || result.videoId || result._id || result.id
\* (route.ts 318)
ExtractId(r) ==
    IF r.video_id # "" THEN r.video_id
    ELSE IF r.videoId # "" THEN r.videoId
    ELSE IF r._id # "" THEN r._id
    ELSE r.id

NoVideoId_Reject == Rejected

\* Promise.resolve(null) for a result without an identifier
\* (route.ts 319-322)
NoVideoId == Null

\* The promises results.map builds (route.ts 314-332): settled with null
\* for a result without an identifier, a lookup in flight otherwise.
MapResults(rs) ==
    [i \in 1..Len(rs) |-> IF ExtractId(rs[i]) = "" THEN NoVideoId ELSE Pending]

\* The lookups results.map issues: one per result with an identifier.
LookupsOf(rs) == Cardinality({ i \in 1..Len(rs) : ExtractId(rs[i]) # "" })

\* What the detail endpoint answers a lookup with.
DetailOutcomes == {"network", "status", "unparsable", "nourl", "url"}
FailedOutcomes == DetailOutcomes \ {"url"}

\* getVideoDetails for the i-th result (route.ts 223-286): it throws on a
\* network error or a non-2xx status, returns '' for a body that does not
\* parse or holds no URL, and the URL otherwise.
getVideoDetails(i, o) ==
    IF o \in {"network", "status"} THEN Rejected
    ELSE IF o \in {"unparsable", "nourl"} THEN EmptyString
    ELSE DetailUrl(i)

\* A field of the parsed detail body: "" for missing, '' or another falsy
\* value, NonString for a truthy value that is no string (a number, an
\* object, true), or a non-empty string named after the field.
NonString == "nonstring"

DetailObjects ==
    [video_url : {"", NonString, "u1"}, videoUrl : {"", NonString, "u2"},
     url : {"", NonString, "u3"}, video : {"", NonString, "u4"},
     video_src : {"", NonString, "u5"}, src : {"", NonString, "u6"}]

\* obj.video_url || obj.videoUrl || obj.url || obj.video || obj.video_src
\* || obj.src (route.ts 278)
FirstTruthy(obj) ==
    IF obj.video_url # "" THEN obj.video_url
    ELSE IF obj.videoUrl # "" THEN obj.videoUrl
    ELSE IF obj.url # "" THEN obj.url
    ELSE IF obj.video # "" THEN obj.video
    ELSE IF obj.video_src # "" THEN obj.video_src
    ELSE obj.src

\* getVideoDetails from the parsed object on (route.ts 273-285): the first
\* truthy field if it is a string, '' otherwise.
ExtractUrl(obj) ==
    LET videoUrl == FirstTruthy(obj)
    IN IF videoUrl # "" /\ videoUrl # NonString THEN <<"url", videoUrl>>
       ELSE EmptyString

LookupCatch_Rethrow(v) == v

\* .catch((error) => { ...; return null; }) (route.ts 328-331)
LookupCatch(v) == IF v = Rejected THEN Null ELSE v

PromiseAllSettled_Early(urls) == TRUE

\* Promise.all has settled (route.ts 334): one promise has rejected, or
\* every one has fulfilled.
PromiseAllSettled(urls) ==
    \/ \E i \in 1..Len(urls) : urls[i] = Rejected
    \/ \A i \in 1..Len(urls) : urls[i] # Pending

PromiseAll_Arrival(urls, order) ==
    [k \in 1..Len(order) |-> urls[order[k]]]

\* await Promise.all(videoPromises) (route.ts 334): the values by index.
PromiseAll(urls, order) == urls

IsValidVideo_NotNull(u) == u # Null

\* videoUrls.filter(url => url !== null && url !== '') (route.ts 335)
IsValidVideo(u) == u # Null /\ u # EmptyString

ServerIdle ==
    /\ sPc = "idle"
    /\ sPhrase = ""
    /\ env = EnvUnset
    /\ session = NoSession
    /\ upstream = NoCalls
    /\ searchHeaders = NoHeaders
    /\ searchOutcome = "none"
    /\ searchData = NoData
    /\ results = <<>>
    /\ videoUrls = <<>>
    /\ settleOrder = <<>>
    /\ detail = <<>>
    /\ lookupIds = <<>>
    /\ detailData = NoData
    /\ response = NoResponse

\* GET has read the parameters of a request carrying the phrase p.
Received(p) ==
    /\ sPc = "start"
    /\ sPhrase = p
    /\ session = NoSession
    /\ upstream = NoCalls
    /\ searchHeaders = NoHeaders
    /\ searchOutcome = "none"
    /\ searchData = NoData
    /\ results = <<>>
    /\ videoUrls = <<>>
    /\ settleOrder = <<>>
    /\ detail = <<>>
    /\ lookupIds = <<>>
    /\ detailData = NoData
    /\ response = NoResponse

ServerInit ==
    /\ env \in EnvConfigs
    /\ \E p \in {"", "hello"} : Received(p)

\* if (!phrase) return 400 (route.ts 294-299)
MissingPhrase ==
    /\ UNCHANGED <<clientVars, env, lookupIds, detailData>>
    /\ sPc = "start"
    /\ PhraseMissing(sPhrase)
    /\ response' = JsonError(400, ErrParam)
    /\ sPc' = "done"
    /\ UNCHANGED <<sPhrase, session, upstream, searchHeaders, searchOutcome,
                   searchData, results, videoUrls, settleOrder, detail>>

\* getSessionCookies with both PLAYPHRASE_COOKIES and PLAYPHRASE_CSRF_TOKEN
\* set (route.ts 36-40).
SessionFromEnv ==
    /\ UNCHANGED <<clientVars, env, lookupIds, detailData>>
    /\ sPc = "start"
    /\ ~PhraseMissing(sPhrase)
    /\ EnvComplete(env)
    /\ session' = [cookies |-> env.cookies, csrfToken |-> env.csrfToken]
    /\ sPc' = "session"
    /\ UNCHANGED <<sPhrase, upstream, searchHeaders, searchOutcome,
                   searchData, results, videoUrls, settleOrder, detail,
                   response>>

\* Without both: the landing request throws or answers non-2xx
\* (route.ts 44-57, 128-130).
LandingFailed ==
    /\ UNCHANGED <<clientVars, env, lookupIds, detailData>>
    /\ sPc = "start"
    /\ ~PhraseMissing(sPhrase)
    /\ ~EnvComplete(env)
    /\ upstream' = [upstream EXCEPT !.landing = @ + 1]
    /\ session' = EmptySession
    /\ sPc' = "session"
    /\ UNCHANGED <<sPhrase, searchHeaders, searchOutcome, searchData,
                   results, videoUrls, settleOrder, detail, response>>

\* The landing request answers 2xx with cookies c and a page in which the
\* patterns find the token t (route.ts 59-102); with cookies and no token
\* the test request to the search endpoint is issued (route.ts 105-115).
LandingReturned(c, t) ==
    /\ UNCHANGED <<clientVars, env, lookupIds, detailData>>
    /\ sPc = "start"
    /\ ~PhraseMissing(sPhrase)
    /\ ~EnvComplete(env)
    /\ session' = [cookies |-> c, csrfToken |-> t]
    /\ IF c # "" /\ t = ""
       THEN /\ upstream' = [upstream EXCEPT !.landing = @ + 1,
                                            !.search = @ + 1]
            /\ sPc' = "probe"
       ELSE /\ upstream' = [upstream EXCEPT !.landing = @ + 1]
            /\ sPc' = "session"
    /\ UNCHANGED <<sPhrase, searchHeaders, searchOutcome, searchData,
                   results, videoUrls, settleOrder, detail, response>>

\* The test request settles, 2xx or not, or throws: the token stays ''
\* (route.ts 116-127).
ProbeSettled ==
    /\ UNCHANGED <<clientVars, env, lookupIds, detailData>>
    /\ sPc = "probe"
    /\ session' = [session EXCEPT !.csrfToken = ""]
    /\ sPc' = "session"
    /\ UNCHANGED <<sPhrase, upstream, searchHeaders, searchOutcome,
                   searchData, results, videoUrls, settleOrder, detail,
                   response>>

\* The search call fails: fetch throws or the status is not 2xx
\* (route.ts 161-174), caught by GET (route.ts 338-344).
SearchFailed(diag) ==
    /\ UNCHANGED <<clientVars, env, lookupIds, detailData>>
    /\ sPc = "session"
    /\ upstream' = [upstream EXCEPT !.search = @ + 1]
    /\ searchHeaders' = SearchHeaders(session)
    /\ searchOutcome' = "failed"
    /\ response' = JsonFailure(diag)
    /\ sPc' = "done"
    /\ UNCHANGED <<sPhrase, session, searchData, results, videoUrls,
                   settleOrder, detail>>

\* The search call answers 2xx with a body: searchPhrases returns
\* (route.ts 161-220, 305).
SearchReturned(body) ==
    /\ UNCHANGED <<clientVars, env, lookupIds, detailData>>
    /\ sPc = "session"
    /\ upstream' = [upstream EXCEPT !.search = @ + 1]
    /\ searchHeaders' = SearchHeaders(session)
    /\ searchOutcome' = IF body.kind = "unparsable" THEN "unparsable"
                        ELSE "parsed"
    /\ searchData' = body
    /\ results' = searchPhrases(body)
    /\ sPc' = "searched"
    /\ UNCHANGED <<sPhrase, session, videoUrls, settleOrder, detail,
                   response>>

\* GET goes on with the results: none, or one promise per result
\* (route.ts 307-332).
LaunchLookups ==
    /\ UNCHANGED <<clientVars, env, detailData>>
    /\ lookupIds' = [i \in 1..Len(results) |-> ExtractId(results[i])]
    /\ sPc = "searched"
    /\ searchData' = NoData
    /\ IF Len(results) = 0
       THEN /\ response' = JsonVideos(<<>>)
            /\ sPc' = "done"
            /\ UNCHANGED <<videoUrls, detail, upstream>>
       ELSE /\ videoUrls' = MapResults(results)
            /\ detail' = [i \in 1..Len(results) |-> "none"]
            /\ upstream' = [upstream EXCEPT !.detail = @ + LookupsOf(results)]
            /\ sPc' = "lookups"
            /\ UNCHANGED response
    /\ UNCHANGED <<sPhrase, session, searchHeaders, searchOutcome, results,
                   settleOrder>>

\* The lookup of the i-th result settles (route.ts 325-331).
LookupSettled(i, o) ==
    /\ UNCHANGED <<clientVars, env, lookupIds, detailData>>
    /\ sPc = "lookups"
    /\ videoUrls[i] = Pending
    /\ videoUrls' = [videoUrls EXCEPT ![i] = LookupCatch(getVideoDetails(i, o))]
    /\ detail' = [detail EXCEPT ![i] = o]
    /\ settleOrder' = Append(settleOrder, i)
    /\ UNCHANGED <<sPc, sPhrase, session, upstream, searchHeaders,
                   searchOutcome, searchData, results, response>>

\* The lookup of the i-th result is answered 2xx with a body that parses
\* to the object obj (route.ts 262-285, 325-331).
DetailParsed(i, obj) ==
    /\ UNCHANGED <<clientVars, env, lookupIds>>
    /\ sPc = "lookups"
    /\ videoUrls[i] = Pending
    /\ detailData' = obj
    /\ videoUrls' = [videoUrls EXCEPT ![i] = LookupCatch(ExtractUrl(obj))]
    /\ detail' = [detail EXCEPT ![i] =
                     IF ExtractUrl(obj) = EmptyString THEN "nourl" ELSE "url"]
    /\ settleOrder' = Append(settleOrder, i)
    /\ UNCHANGED <<sPc, sPhrase, session, upstream, searchHeaders,
                   searchOutcome, searchData, results, response>>

\* Promise.all settles: with the first rejection, or with every value once
\* none is pending; then the filter and the response (route.ts 334-344).
Aggregate ==
    /\ UNCHANGED <<clientVars, env, lookupIds, detailData>>
    /\ sPc = "lookups"
    /\ PromiseAllSettled(videoUrls)
    /\ response' =
          IF \E i \in 1..Len(videoUrls) : videoUrls[i] = Rejected
          THEN JsonFailure("Video API failed")
          ELSE JsonVideos(SelectSeq(PromiseAll(videoUrls, settleOrder),
                                    IsValidVideo))
    /\ sPc' = "done"
    /\ UNCHANGED <<sPhrase, session, upstream, searchHeaders, searchOutcome,
                   searchData, results, videoUrls, settleOrder, detail>>

ServerNext ==
    \/ MissingPhrase
    \/ SessionFromEnv
    \/ LandingFailed
    \/ \E c \in LandingCookies, t \in LandingTokens : LandingReturned(c, t)
    \/ ProbeSettled
    \/ \E diag \in Diagnostics : SearchFailed(diag)
    \/ /\ sPc = "session"
       /\ \E body \in SearchBodies : SearchReturned(body)
    \/ LaunchLookups
    \/ \E i \in 1..Len(videoUrls), o \in DetailOutcomes : LookupSettled(i, o)
    \/ Aggregate

\* --------------------------------------------------------- specifications
\* The component before any of its handlers has run, with no phrase.
ClientIdle ==
    /\ ClientInit
    /\ query = NoPhrase

Init == ClientInit /\ ServerIdle

Next == ClientNext

Spec == Init /\ [][Next]_vars

\* A window bound: undefined, or a time.
Bounds == {Absent} \cup 0..MaxTime
WordLists ==
    SeqsUpTo([start : Bounds, end : Bounds], MaxWords)

\* The player right after a one-clip queue with one subtitle was loaded
\* (FetchVideos for n = 1), for every word list of the subtitle.
TickInit ==
    /\ \E w \in WordLists :
          /\ subtitles = <<[text |-> Text("a", 1), words |-> w]>>
          /\ timeListeners = {[sub |-> subtitles[1], el |-> "mounted",
                               stale |-> FALSE]}
    /\ query = "a"
    /\ inflight = [q \in Phrases |-> 0]
    /\ videos = VideosOf("a", 1)
    /\ loading = FALSE
    /\ error = NoError
    /\ currentIndex = 0
    /\ currentSubtitle = Text("a", 1)
    /\ currentWordIndex = -1
    /\ endedListeners = {[len |-> 1, el |-> "mounted", stale |-> FALSE]}
    /\ videoEl = "playing"
    /\ videoSrc = Url("a", 1)
    /\ lastOp = "loadQueue"
    /\ sinceZero = 0
    /\ errorOf = "a"
    /\ pre = NoPre
    /\ tickTime = 0
    /\ ServerIdle

TickNext == \E l \in timeListeners, t \in 0..MaxTime : Tick(l, t)

SpecTick == TickInit /\ [][TickNext]_vars

ServerSpecInit == ClientIdle /\ ServerInit

SpecServer == ServerSpecInit /\ [][ServerNext]_vars

\* The same request where every call the handler awaits settles and its
\* continuation runs (the runtime resolves or rejects each fetch), over
\* the search bodies that are an array or do not parse, and lookups that
\* throw, give no URL, or give one.
LiveBodies == { b \in SearchBodies : b.kind \in {"array", "unparsable"} }
LiveOutcomes == {"network", "nourl", "url"}

LiveNext ==
    \/ MissingPhrase
    \/ SessionFromEnv
    \/ LandingFailed
    \/ \E c \in LandingCookies, t \in LandingTokens : LandingReturned(c, t)
    \/ ProbeSettled
    \/ \E diag \in Diagnostics : SearchFailed(diag)
    \/ /\ sPc = "session"
       /\ \E body \in LiveBodies : SearchReturned(body)
    \/ LaunchLookups
    \/ \E i \in 1..Len(videoUrls), o \in LiveOutcomes : LookupSettled(i, o)
    \/ Aggregate

SpecServerLive == ServerSpecInit /\ [][LiveNext]_vars /\ WF_vars(LiveNext)

\* One page load: the component has mounted, and GET has read the request
\* for the same phrase (the component's fetch; without a phrase the
\* component issues none, and the request is another caller's).
PageInit ==
    /\ Constructed
    /\ env \in EnvConfigs
    /\ Received(IF query = NoPhrase THEN "" ELSE query)

\* The component's fetch has an answer to read.
Answered ==
    /\ sPc = "done"
    /\ query \in Phrases

\* response.ok and data.videos.length > 0; the route sends no subtitles,
\* data.subtitles || [] (page.tsx 296-309).
DeliverVideos(played) ==
    /\ Answered
    /\ response.status = 200
    /\ Len(response.videos) > 0
    /\ FetchVideos(query, Len(response.videos), <<>>, played)

\* response.ok and an empty videos list (page.tsx 303-304, 310-312).
DeliverEmpty ==
    /\ Answered
    /\ response.status = 200
    /\ Len(response.videos) = 0
    /\ FetchEmpty(query)

ErrorText_Message(resp) == resp.message

\* errorData?.error || 'Failed to fetch videos' (page.tsx 299-300)
ErrorText(resp) == IF resp.error # "" THEN resp.error ELSE ErrFailed

\* !response.ok: throw new Error(...), caught and shown (page.tsx 298-301,
\* 313-314).
DeliverFail ==
    /\ Answered
    /\ response.status # 200
    /\ FetchFail(query, ErrorText(response))

PageNext ==
    \/ Mount
    \/ ServerNext
    \/ \E played \in BOOLEAN : DeliverVideos(played)
    \/ DeliverEmpty
    \/ DeliverFail

SpecPage == PageInit /\ [][PageNext]_vars

\* A result with an identifier, and the array bodies of up to MaxUpstream
\* of it: the upstream is free to answer with more than it was asked for.
CapResult == [video_id |-> "v", videoId |-> "", _id |-> "", id |-> "w"]

CapBodies ==
    { [kind |-> "array", arr |-> [i \in 1..n |-> CapResult],
       results |-> FieldAbsent, data |-> FieldAbsent, items |-> FieldAbsent] :
         n \in 0..MaxUpstream }

CapInit ==
    /\ ClientIdle
    /\ env = EnvBoth
    /\ Received("hello")

CapNext ==
    \/ SessionFromEnv
    \/ /\ sPc = "session"
       /\ \E body \in CapBodies : SearchReturned(body)
    \/ LaunchLookups
    \/ \E i \in 1..Len(videoUrls) : LookupSettled(i, "url")
    \/ Aggregate

SpecCap == CapInit /\ [][CapNext]_vars

\* One result with an identifier, its lookup answered with any object.
DetailBody ==
    [kind |-> "array", arr |-> <<CapResult>>, results |-> FieldAbsent,
     data |-> FieldAbsent, items |-> FieldAbsent]

DetailInit ==
    /\ ClientIdle
    /\ env = EnvBoth
    /\ Received("hello")

DetailNext ==
    \/ SessionFromEnv
    \/ SearchReturned(DetailBody)
    \/ LaunchLookups
    \/ \E obj \in DetailObjects : DetailParsed(1, obj)
    \/ Aggregate

SpecDetail == DetailInit /\ [][DetailNext]_vars

\* Results with each identifier field set or not, the fields told apart by
\* their values, and the array bodies of up to MaxIds of them.
IdResults ==
    [video_id : {"", "v"}, videoId : {"", "c"}, _id : {"", "x"},
     id : {"", "w"}]

IdBodies ==
    { [kind |-> "array", arr |-> S, results |-> FieldAbsent,
       data |-> FieldAbsent, items |-> FieldAbsent] :
         S \in SeqsUpTo(IdResults, MaxIds) }

IdsInit ==
    /\ ClientIdle
    /\ env = EnvBoth
    /\ Received("hello")

IdsNext ==
    \/ SessionFromEnv
    \/ /\ sPc = "session"
       /\ \E body \in IdBodies : SearchReturned(body)
    \/ LaunchLookups
    \/ \E i \in 1..Len(videoUrls) : LookupSettled(i, "url")
    \/ Aggregate

SpecIds == IdsInit /\ [][IdsNext]_vars

\* ------------------------------------------------------------ the claims
NoFetchInFlight == \A q \in Phrases : inflight[q] = 0

\* The query whose response the queue came from.
QueueOf(v) == v[1][1]

\* C1: on a loaded queue of length n every clip-finished event ('ended' or
\* 'error') brings currentIndex back to 0 exactly when it is the n-th
\* advance since currentIndex was last 0, never earlier, in every cycle.
C1_LoopProperty ==
    [][lastOp' \in {"ended", "error"} =>
          (currentIndex' = 0 <=> sinceZero + 1 = Len(videos))]_vars

C1_Witness ==
    /\ lastOp \in {"ended", "error"}
    /\ CurrentView = "player"
    /\ Len(videos) >= 2
    /\ currentIndex = 0

\* C2: whenever the queue is populated, 0 <= currentIndex < len(queue).
C2_IndexInRange ==
    Len(videos) > 0 => (currentIndex >= 0 /\ currentIndex < Len(videos))

\* A queue was just replaced by one no longer than the old index.
C2_Witness ==
    /\ lastOp = "loadQueue"
    /\ pre.shrunk
    /\ CurrentView = "player"

\* C7: a fetch that settles with an empty clip sequence leaves the error
\* view, with no <video> mounted, nothing loaded into it and currentIndex
\* untouched, also when an earlier queue is still held.
C7_EmptyLoadUnavailable ==
    [][lastOp' = "loadEmpty" =>
          /\ View(loading', error', videos') = "error"
          /\ videoEl' = "none"
          /\ videoSrc' = NoSrc
          /\ currentIndex' = currentIndex]_vars

C7_Witness ==
    /\ lastOp = "loadEmpty"
    /\ Len(videos) > 0
    /\ currentIndex > 0

\* C8: once no fetch is in flight, what is shown comes from the latest
\* query: the queue and subtitles of the player view, the message of the
\* error view.
C8_LatestQueryOnly ==
    (NoFetchInFlight /\ query \in Phrases) =>
        /\ CurrentView = "player" =>
              (QueueOf(videos) = query /\
               \A i \in 1..Len(subtitles) : subtitles[i].text[1] = query)
        /\ CurrentView = "error" => errorOf = query

InWindow(w, t) == OrZero(w.start) <= t /\ t <= OrZero(w.end)

ActiveWords == SubAt(subtitles, currentIndex).words

\* C3: after a clock tick at time t, currentWordIndex is the smallest index
\* whose window [start, end] holds t, and -1 when no window holds it.
C3_FirstWindowWins ==
    lastOp = "tick" =>
        \/ /\ currentWordIndex = -1
           /\ \A i \in 1..Len(ActiveWords) : ~InWindow(ActiveWords[i], tickTime)
        \/ /\ currentWordIndex \in 0..(Len(ActiveWords) - 1)
           /\ InWindow(ActiveWords[currentWordIndex + 1], tickTime)
           /\ \A j \in 1..currentWordIndex : ~InWindow(ActiveWords[j], tickTime)

\* Two windows overlap at the tick's time, which is the end of the first.
C3_Witness ==
    /\ lastOp = "tick"
    /\ Len(ActiveWords) >= 2
    /\ InWindow(ActiveWords[1], tickTime)
    /\ InWindow(ActiveWords[2], tickTime)
    /\ ActiveWords[1].end = tickTime
    /\ currentWordIndex = 0

Indices(n) == [i \in 1..n |-> i]

\* The i-th result has an identifier and its lookup was answered a URL.
Resolved(i) == ExtractId(results[i]) # "" /\ detail[i] = "url"

ExpectedVideos ==
    LET idx == SelectSeq(Indices(Len(results)), Resolved)
    IN [k \in 1..Len(idx) |-> DetailUrl(idx[k])]

\* C4: whatever the order the lookups settle in, the videos returned are
\* the URLs of the results that have an identifier and resolve to a
\* non-empty URL, in search-result order.
C4_IndexAlignedGather ==
    (sPc = "done" /\ Len(detail) > 0) =>
        response = JsonVideos(ExpectedVideos)

\* Two URLs are returned and the later result's lookup settled first.
C4_Witness ==
    /\ sPc = "done"
    /\ Len(response.videos) >= 2
    /\ Len(settleOrder) >= 2
    /\ settleOrder[1] > settleOrder[2]

\* C5: a lookup that fails (network error, non-2xx, unparsable body, no
\* URL field) leaves no entry for its own result and nothing else: the
\* request is not answered 500, the response waits for every lookup, and
\* every result whose lookup succeeded is in the list returned.
C5_FailureIsolated ==
    \A i \in 1..Len(detail) :
        detail[i] \in FailedOutcomes =>
            /\ ~IsValidVideo(videoUrls[i])
            /\ response.status # 500
            /\ sPc = "done" =>
                  /\ response.status = 200
                  /\ \A j \in 1..Len(videoUrls) : videoUrls[j] # Pending
                  /\ \A j \in 1..Len(detail) :
                        detail[j] = "url" =>
                            \E k \in 1..Len(response.videos) :
                                response.videos[k] = DetailUrl(j)
                  /\ \A k \in 1..Len(response.videos) :
                        response.videos[k] # DetailUrl(i)

C5_Witness ==
    /\ sPc = "done"
    /\ \E i \in 1..Len(detail) : detail[i] \in {"network", "status"}
    /\ \E j \in 1..Len(detail) : detail[j] = "url"
    /\ Len(response.videos) >= 1

FieldOf(body, k) ==
    IF k = 1 THEN body.results ELSE IF k = 2 THEN body.data ELSE body.items

\* The array the priority order results, data, items selects.
ExpectedResults(body) ==
    IF body.kind = "array" THEN body.arr
    ELSE IF body.kind = "object" /\ \E k \in 1..3 : FieldOf(body, k).t = "array"
         THEN LET first == CHOOSE k \in 1..3 :
                              /\ FieldOf(body, k).t = "array"
                              /\ \A j \in 1..(k - 1) : FieldOf(body, j).t # "array"
              IN FieldOf(body, first).arr
    ELSE <<>>

\* C6: a raw array S and an object holding S under results, data or items
\* normalize to S, the first of results, data, items that holds an array
\* wins, and every other body normalizes to the empty sequence.
C6_SearchNormalization ==
    sPc = "searched" => results = ExpectedResults(searchData)

\* results is no array, data and items hold different arrays: data wins.
C6_Witness ==
    /\ sPc = "searched"
    /\ searchData.kind = "object"
    /\ searchData.results.t = "other"
    /\ searchData.data.t = "array"
    /\ searchData.items.t = "array"
    /\ searchData.data.arr # searchData.items.arr
    /\ Len(results) > 0
    /\ results = searchData.data.arr

\* --------------------------------------------------------------- SpecPage
NoUpstreamCall ==
    /\ upstream = NoCalls
    /\ ~searchHeaders.sent

\* C11: a request without a phrase is answered 400 with the message naming
\* the parameter and no call to the upstream is issued for it, at any point
\* of its handling; the component without a phrase issues no fetch and its
\* mount leaves it in the error view with the usage message, not loading.
C11_MissingPhrase ==
    /\ sPhrase = "" =>
          /\ NoUpstreamCall
          /\ sPc = "done" => response = JsonError(400, ErrParam)
    /\ query = NoPhrase =>
          /\ \A q \in Phrases : inflight[q] = 0
          /\ lastOp = "mount" =>
                /\ error = ErrMissing
                /\ ~loading
                /\ CurrentView = "error"

\* Both have handled the missing phrase.
C11_Witness ==
    /\ sPhrase = ""
    /\ sPc = "done"
    /\ query = NoPhrase
    /\ lastOp = "mount"

\* C12: a search call that fails (it throws or answers non-2xx) or whose
\* body does not parse ends the request with a 500 carrying an error
\* message, with no detail lookup issued and no videos list in the answer.
C12_SearchFailureAborts ==
    (sPc = "done" /\ searchOutcome \in {"failed", "unparsable"}) =>
        /\ response.status = 500
        /\ response.body = "error"
        /\ response.error # ""
        /\ upstream.detail = 0

\* The request has ended with a search that gave no playable clip: no
\* results, or no result with both an identifier and a URL.
NonePlayable ==
    /\ sPc = "done"
    /\ searchOutcome \in {"parsed", "unparsable"}
    /\ \A i \in 1..Len(results) : ~Resolved(i)

\* C13: when no playable clip is resolved the route answers 200 with an
\* empty videos list, not a 5xx, and the component that reads the answer
\* ends not loading, in the error view with the no-videos message, with no
\* queue and no <video> mounted.
C13_EmptyResultNotServerError ==
    NonePlayable =>
        /\ response = JsonVideos(<<>>)
        /\ lastOp \in {"render", "mount", "loadEmpty"}
        /\ lastOp = "loadEmpty" =>
              /\ ~loading
              /\ error = ErrNoVideos
              /\ CurrentView = "error"
              /\ videos = <<>>
              /\ videoEl = "none"
              /\ videoSrc = NoSrc

\* The component has read the answer of a request whose results all failed
\* to resolve: one without an identifier, one whose lookup failed.
C13_Witness ==
    /\ NonePlayable
    /\ lastOp = "loadEmpty"
    /\ Len(results) = 2
    /\ ExtractId(results[1]) = ""
    /\ detail[2] \in FailedOutcomes

\* What getSessionCookies can return.
Sessions ==
    {[cookies |-> "env", csrfToken |-> "env"]}
    \cup [cookies : LandingCookies, csrfToken : LandingTokens]

\* C14: whatever session acquisition meets, getSessionCookies returns a
\* cookies/token pair (empty strings where nothing was obtained), GET goes
\* on to the search call, and that call carries exactly the headers the
\* pair gives: none when both are empty.
C14_SessionNotFatal ==
    (sPhrase # "" /\ sPc \notin {"start", "probe"}) =>
        /\ session \in Sessions
        /\ sPc # "session" =>
              /\ searchHeaders.sent
              /\ searchHeaders.cookie = session.cookies
              /\ searchHeaders.token = session.csrfToken
              /\ upstream.search >= 1

\* The landing request failed and the request still ended with clips.
C14_Witness ==
    /\ sPc = "done"
    /\ upstream.landing = 1
    /\ session = EmptySession
    /\ searchHeaders = [sent |-> TRUE, cookie |-> "", token |-> ""]
    /\ Len(response.videos) > 0

\* u is a URL the detail endpoint gave: a non-empty string.
IsUrl(u) == Len(u) = 2 /\ u[1] = "url"

\* C15: every entry of a videos list the route returns is a non-empty URL
\* string (no null, no ''), and the component sets its queue only from a
\* list of at least one entry: after an empty or failed answer the queue
\* is still empty.
C15_QueueUrlsNonEmpty ==
    /\ \A i \in 1..Len(response.videos) : IsUrl(response.videos[i])
    /\ lastOp = "loadQueue" =>
          /\ Len(videos) >= 1
          /\ Len(videos) = Len(response.videos)
    /\ lastOp # "loadQueue" => videos = <<>>

\* A queue was loaded from an answer out of which a '' was filtered.
C15_Witness ==
    /\ lastOp = "loadQueue"
    /\ Len(videos) = 1
    /\ Len(results) = 2
    /\ \E i \in 1..2 : detail[i] \in {"unparsable", "nourl"}

\* ------------------------------------------------------------------- Spec
\* The step changed the clip: an advance to another index, or a queue load.
ClipChanged ==
    \/ lastOp' \in {"ended", "error"} /\ currentIndex' # currentIndex
    \/ lastOp' = "loadQueue"

\* C16: every step that changes the clip and leaves the player rendered
\* leaves currentWordIndex at -1, with or without a subtitle for the new
\* clip, whatever word was highlighted before.
C16_WordIndexReset ==
    [][(ClipChanged /\ CurrentView' = "player") => currentWordIndex' = -1]_vars

C18_NoSubtitleNoError ==
    [][(/\ ClipChanged
        /\ CurrentView' = "player"
        /\ SubAt(subtitles', currentIndex') = NoSub)
       => /\ videoSrc' = VideoAt(videos', currentIndex')
          /\ videoEl' \in {"playing", "blocked"}
          /\ error' = NoError
          /\ ~CaptionShown']_vars

\* A queue without subtitles was loaded over a clip whose caption was
\* shown with its first word highlighted.
C18_Witness ==
    /\ lastOp = "loadQueue"
    /\ CurrentView = "player"
    /\ SubAt(subtitles, currentIndex) = NoSub
    /\ currentSubtitle # <<>>
    /\ currentWordIndex = 0
    /\ videoEl = "playing"

\* ------------------------------------------------------------- SpecServer
\* C19: a request with a phrase that has ended has issued exactly one call
\* to the search endpoint and at most one detail lookup per result with an
\* identifier, on every path through session acquisition.
C19_SingleAttempt ==
    (sPc = "done" /\ sPhrase # "") =>
        /\ upstream.search = 1
        /\ upstream.detail <= LookupsOf(results)

\* ---------------------------------------------------------------- SpecCap
\* C20: whatever number of results the search answers with, at most Limit
\* detail lookups are issued and at most Limit videos are returned.
C20_AtMostLimit ==
    /\ upstream.detail <= Limit
    /\ Len(response.videos) <= Limit

\* ---------------------------------------------------------------- SpecIds
\* The first of video_id, videoId, _id, id that is set, "" when none is.
FirstId(r) ==
    LET fs == <<r.video_id, r.videoId, r._id, r.id>>
        set == { k \in 1..4 : fs[k] # "" }
    IN IF set = {} THEN ""
       ELSE fs[CHOOSE k \in set : \A j \in set : k <= j]

HasId(i) == FirstId(results[i]) # ""

\* C21: each lookup is issued with the first of video_id, videoId, _id, id
\* that is set; a result with none gets no lookup and a null entry, and the
\* request still answers 200 with the URLs of the other results in result
\* order.
C21_IdExtractionPriority ==
    (sPc \in {"lookups", "done"} /\ Len(results) > 0) =>
        /\ \A i \in 1..Len(results) :
              /\ lookupIds[i] = FirstId(results[i])
              /\ ~HasId(i) => (videoUrls[i] = Null /\ detail[i] = "none")
        /\ upstream.detail = Cardinality({ i \in 1..Len(results) : HasId(i) })
        /\ sPc = "done" =>
              response =
                JsonVideos(LET idx == SelectSeq(Indices(Len(results)), HasId)
                           IN [k \in 1..Len(idx) |-> DetailUrl(idx[k])])

\* The first result has no identifier, the second has videoId and id and
\* no video_id: it was looked up by videoId and is the only video returned.
C21_Witness ==
    /\ sPc = "done"
    /\ Len(results) = 2
    /\ ~HasId(1)
    /\ results[2] = [video_id |-> "", videoId |-> "c", _id |-> "", id |-> "w"]
    /\ lookupIds = <<"", "c">>
    /\ response = JsonVideos(<<DetailUrl(2)>>)

\* ------------------------------------------------------------------- Spec
\* C22: after every 'ended' or 'error' handled while the player is
\* rendered, for a queue of any length, the element's source is the clip at
\* the new currentIndex, loaded anew, and play() has been called on it.
C22_ReloadAfterFinish ==
    [][(lastOp' \in {"ended", "error"} /\ CurrentView' = "player") =>
          /\ videoSrc' = VideoAt(videos', currentIndex')
          /\ videoEl' \in {"playing", "blocked"}]_vars

FirstString(obj) ==
    LET fs == <<obj.video_url, obj.videoUrl, obj.url, obj.video,
                obj.video_src, obj.src>>
        set == { k \in 1..6 : fs[k] \notin {"", NonString} }
    IN IF set = {} THEN ""
       ELSE fs[CHOOSE k \in set : \A j \in set : k <= j]

\* C24: the URL taken from a detail object is the value of the first of
\* video_url, videoUrl, url, video, video_src, src that holds a non-empty
\* string, and '' only when none of them does.
C24_UrlExtractionPriority ==
    detailData # NoData =>
        videoUrls[1] = IF FirstString(detailData) = "" THEN EmptyString
                       ELSE <<"url", FirstString(detailData)>>

\* --------------------------------------------------------------- SpecPage
\* C25: the error text the component holds is one of its fixed messages,
\* and after a failed answer it is 'Failed to fetch videos' whatever the
\* upstream's status, status text and body the route put in the answer's
\* message field: runs that differ in those show the same text.
C25_FixedErrorText ==
    /\ error \in {NoError, ErrMissing, ErrNoVideos, ErrFailed}
    /\ lastOp = "loadFail" =>
          /\ response.message \in Diagnostics
          /\ error = ErrFailed
          /\ CurrentView = "error"

\* The component shows the error of an answer whose message field carries
\* the upstream's body.
C25_Witness ==
    /\ lastOp = "loadFail"
    /\ response.message =
          "Search API failed: 500 Internal Server Error. Response: stack trace"
    /\ error = ErrFailed

\* ------------------------------------------------------------- SpecServer
\* C26: once the session of a request is acquired, it is the configured
\* pair and no landing request was issued if both variables are set; if
\* either is unset one landing request was issued and both parts of the
\* session come from it, none from the configuration.
C26_SessionSourceSelection ==
    (sPhrase # "" /\ sPc \notin {"start", "probe"}) =>
        IF env = EnvBoth
        THEN /\ upstream.landing = 0
             /\ session = [cookies |-> "env", csrfToken |-> "env"]
        ELSE /\ upstream.landing = 1
             /\ session.cookies \in LandingCookies
             /\ session.csrfToken \in LandingTokens

\* Only the cookie string is configured: the request ended with the
\* landing page's cookies and token.
C26_Witness ==
    /\ sPc = "done"
    /\ env = [cookies |-> "env", csrfToken |-> ""]
    /\ upstream.landing = 1
    /\ session = [cookies |-> "set-cookie", csrfToken |-> "html"]

\* ------------------------------------------------------------------- Spec
\* C27: while a fetch for the current query is in flight the loading flag
\* is set and the loading view is what is rendered, whatever fetches for
\* earlier queries complete meanwhile.
C27_LoadingWhileInFlight ==
    (query \in Phrases /\ inflight[query] > 0) =>
        /\ loading
        /\ CurrentView = "loading"

====
